---- MODULE Spec2Model ----
(***************************************************************************)
(* A model of the kvstore server: the KVStore map behind its               *)
(* shared_timed_mutex, the listener's accept loop, and one handle_client   *)
(* thread per accepted connection that reassembles lines from fragmented   *)
(* reads, parses them with an istringstream and answers each with one      *)
(* response.  Byte strings are sequences of one-character strings.         *)
(***************************************************************************)
EXTENDS Integers, Sequences, FiniteSets, TLC

(* ------------------------------ bounds --------------------------------- *)
\* connections the listener may accept
MaxConns == 2
\* messages the client of the protocol specification sends
MaxMsgs == 2
\* commands the clients of the concurrent specification send in all
MaxCmds == 2
\* failed accepts the listener specification lets happen
MaxAcceptFails == 2

(* ------------------------- program constants --------------------------- *)
\* char chunk[1024]
ChunkSize == 1024

(* ------------------------------ bytes ---------------------------------- *)
LF == "\n"
SP == " "
\* the zero byte
NUL == "0x00"

\* the classic-locale whitespace that operator>> skips and stops at
IsSpace(ch) == ch \in {" ", "\t", "\n", "\r"}

Conns == 1..MaxConns

(* --------------------------- byte-string helpers ----------------------- *)
\* std::string::find(ch): first index of ch in s, 0 for npos
RECURSIVE FindFrom(_, _, _)
FindFrom(s, ch, i) ==
    IF i > Len(s) THEN 0
    ELSE IF s[i] = ch THEN i
    ELSE FindFrom(s, ch, i + 1)

Find(s, ch) == FindFrom(s, ch, 1)

\* the C string held by a char array: the bytes before the first zero byte
CStr(chunk) ==
    LET z == Find(chunk, NUL)
    IN  IF z = 0 THEN chunk ELSE SubSeq(chunk, 1, z - 1)

\* buffer += chunk, chunk being a char array
AppendChunk(buf, chunk) == buf \o CStr(chunk)

(* ------------------------------ istringstream -------------------------- *)
\* std::istringstream iss(line): the text, the read position, eofbit, failbit
IStream(s) == [s |-> s, pos |-> 1, eof |-> FALSE, fail |-> FALSE]

Good(iss) == ~iss.eof /\ ~iss.fail

\* first index >= i holding a non-space byte, Len(s) + 1 when there is none
RECURSIVE SkipWs(_, _)
SkipWs(s, i) ==
    IF i > Len(s) THEN i
    ELSE IF IsSpace(s[i]) THEN SkipWs(s, i + 1)
    ELSE i

\* first index >= i holding a space byte, Len(s) + 1 when there is none
RECURSIVE WordEnd(_, _)
WordEnd(s, i) ==
    IF i > Len(s) THEN i
    ELSE IF IsSpace(s[i]) THEN i
    ELSE WordEnd(s, i + 1)

\* iss >> word, word a fresh std::string: the word read and the stream after
ExtractWord(iss) ==
    IF ~Good(iss)
    THEN [word |-> << >>, iss |-> [iss EXCEPT !.fail = TRUE]]
    ELSE LET b == SkipWs(iss.s, iss.pos)
             e == WordEnd(iss.s, b)
         IN  IF b > Len(iss.s)
             THEN [word |-> << >>,
                   iss |-> [iss EXCEPT !.pos = b, !.eof = TRUE, !.fail = TRUE]]
             ELSE [word |-> SubSeq(iss.s, b, e - 1),
                   iss |-> [iss EXCEPT !.pos = e, !.eof = (e > Len(iss.s))]]

\* std::getline(iss, value), value a fresh std::string; the line holds no '\n'
GetLine(iss) ==
    IF ~Good(iss)
    THEN [str |-> << >>, iss |-> [iss EXCEPT !.fail = TRUE]]
    ELSE [str |-> SubSeq(iss.s, iss.pos, Len(iss.s)),
          iss |-> [iss EXCEPT !.pos = Len(iss.s) + 1, !.eof = TRUE,
                              !.fail = (iss.pos > Len(iss.s))]]

\* variant: every leading space is removed
RECURSIVE StripLeadingSpaces(_)
StripLeadingSpaces(value) ==
    IF value # << >> /\ value[1] = SP THEN StripLeadingSpaces(Tail(value))
    ELSE value

\* variant: the leading space is kept
KeepLeadingSpace(value) == value

\* if (!value.empty() && value[0] == ' ') value.erase(0, 1)
StripLeadingSpace(value) ==
    IF value # << >> /\ value[1] = SP THEN Tail(value) ELSE value

(* ------------------------- command words and responses ----------------- *)
CMD_SET == <<"S", "E", "T">>
CMD_GET == <<"G", "E", "T">>
\* the spec's name for the delete command, and a variant of CMD_DEL
CMD_DELETE == <<"D", "E", "L", "E", "T", "E">>
CMD_DEL == <<"D", "E", "L">>

RESP_OK == <<"O", "K", LF>>
RESP_NOT_FOUND == <<"N", "O", "T", "_", "F", "O", "U", "N", "D", LF>>
RESP_DELETED == <<"D", "E", "L", "E", "T", "E", "D", LF>>
RESP_ERR_SET == <<"E", "R", "R", "O", "R", ":", " ", "S", "E", "T", " ",
                  "r", "e", "q", "u", "i", "r", "e", "s", " ", "k", "e", "y",
                  " ", "a", "n", "d", " ", "v", "a", "l", "u", "e", LF>>
RESP_ERR_GET == <<"E", "R", "R", "O", "R", ":", " ", "G", "E", "T", " ",
                  "r", "e", "q", "u", "i", "r", "e", "s", " ", "k", "e", "y", LF>>
RESP_ERR_DEL == <<"E", "R", "R", "O", "R", ":", " ", "D", "E", "L", " ",
                  "r", "e", "q", "u", "i", "r", "e", "s", " ", "k", "e", "y", LF>>
RESP_ERR_UNKNOWN == <<"E", "R", "R", "O", "R", ":", " ", "U", "n", "k", "n", "o",
                      "w", "n", " ", "c", "o", "m", "m", "a", "n", "d", LF>>

(* ------------------------------ parsing -------------------------------- *)
\* the decision handle_client takes for one non-empty line, up to the store call
ParseLine(ln) ==
    LET c == ExtractWord(IStream(ln))
        k == ExtractWord(c.iss)
    IN  IF c.word = CMD_SET
        THEN LET v == StripLeadingSpace(GetLine(k.iss).str)
             IN  IF k.word # << >> /\ v # << >>
                 THEN [op |-> "set", key |-> k.word, value |-> v, response |-> << >>]
                 ELSE [op |-> "error", key |-> k.word, value |-> v,
                       response |-> RESP_ERR_SET]
        ELSE IF c.word = CMD_GET
        THEN IF k.word # << >>
             THEN [op |-> "get", key |-> k.word, value |-> << >>, response |-> << >>]
             ELSE [op |-> "error", key |-> << >>, value |-> << >>,
                   response |-> RESP_ERR_GET]
        ELSE IF c.word = CMD_DEL
        THEN IF k.word # << >>
             THEN [op |-> "remove", key |-> k.word, value |-> << >>,
                   response |-> << >>]
             ELSE [op |-> "error", key |-> << >>, value |-> << >>,
                   response |-> RESP_ERR_DEL]
        ELSE [op |-> "error", key |-> << >>, value |-> << >>,
              response |-> RESP_ERR_UNKNOWN]

(* ------------------------------- state --------------------------------- *)
VARIABLES
    data_,        \* KVStore::data_: the <<key, value>> entries, one per key
    mtx_,         \* KVStore::mtx_: the threads holding it exclusively / shared
    lpc,          \* the main thread: "ctor", "accept", "terminated"
    server_fd_,   \* Server::server_fd_: "none" (-1), "open", "closed"
    process,      \* the process: "running", or "aborted" by std::terminate
    cerr,         \* the "Failed to accept client connection" lines logged
    pc,           \* each connection's handler thread
    buffer,       \* handle_client: std::string buffer
    line,         \* handle_client: std::string line
    key,          \* handle_client / KVStore: key
    value,        \* handle_client: value (SET argument, GET result)
    deleted,      \* handle_client: bool deleted
    response,     \* handle_client: std::string response
    net,          \* bytes sent by the peer and not yet read
    peer_closed,  \* the peer has shut its side down
    todo,         \* the messages the peer still means to send
    hist_on,      \* history: whether the four histories below are kept
    rx,           \* history: every byte read() has returned
    lines,        \* history: the non-empty lines extracted
    calls,        \* history: what each of those lines parsed to
    out,          \* the responses written to the socket, in order
    pre,          \* history: data_ when the current line was extracted
    stable,       \* history: what the store calls that have returned left
    expect        \* history: what the store call in progress must observe

vars == <<data_, mtx_, lpc, server_fd_, process, cerr, pc, buffer, line, key, value, deleted, response,
          net, peer_closed, todo, hist_on, rx, lines, calls, out, pre,
          stable, expect>>

store_vars == <<data_, mtx_>>
main_vars == <<lpc, server_fd_, process, cerr>>
local_vars == <<buffer, line, key, value, deleted, response>>
peer_vars == <<net, peer_closed, todo>>
hist_vars == <<hist_on, rx, lines, calls, out, pre, stable, expect>>

(* --------------------- history of the store calls ---------------------- *)
\* stable.known holds <<k, v>> when the last set(k, v) or remove(k) (v = "")
\* to return overlapped no other set or remove of k; stable.dirty holds k
\* while a set or remove of k is in progress, or after overlapping ones.
\* expect[c] is, for a get in progress, the value every set and remove that
\* returned before it began left for its key, known as long as no set or
\* remove of that key has been in progress since; for a set or remove in
\* progress, known tells that no other set or remove of its key overlapped.
NoExpect == [known |-> FALSE, v |-> << >>]

\* the history h of connection c with x added, when histories are kept
Record(h, c, x) == IF hist_on THEN [h EXCEPT ![c] = Append(@, x)] ELSE h

Writing(t) ==
    pc[t] \in {"set_lock", "set_assign", "set_unlock",
               "rem_lock", "rem_erase", "rem_unlock"}
Reading(t) == pc[t] \in {"get_lock", "get_find", "get_unlock"}

\* what a get of k must return, every earlier call on k having returned
StableValue(k) ==
    IF \E e \in stable.known : e[1] = k
    THEN (CHOOSE e \in stable.known : e[1] = k)[2]
    ELSE << >>

\* a set or remove of k begins on thread t
BeginWrite(t, k) ==
    /\ stable' = [stable EXCEPT !.dirty = @ \cup {k}]
    /\ expect' = [u \in DOMAIN expect |->
          IF u = t
          THEN [known |-> ~\E w \in DOMAIN pc \ {t} : Writing(w) /\ key[w] = k,
                v |-> << >>]
          ELSE IF (Writing(u) \/ Reading(u)) /\ key[u] = k THEN NoExpect
          ELSE expect[u]]

\* a get of k begins on thread t
BeginRead(t, k) ==
    /\ expect' = [expect EXCEPT ![t] =
          [known |-> k \notin stable.dirty, v |-> StableValue(k)]]
    /\ stable' = stable

\* the set or remove of k on thread t returns, leaving v ("" when absent)
EndWrite(t, k, v) ==
    /\ stable' = IF expect[t].known
                 THEN [known |-> {e \in stable.known : e[1] # k} \cup {<<k, v>>},
                       dirty |-> stable.dirty \ {k}]
                 ELSE stable
    /\ expect' = expect

(* ------------------------------- KVStore ------------------------------- *)
\* the unordered_map as its set of <<key, value>> entries
EmptyMap == {}

\* variant: every key counts as present
PresentAlways(d, k) == TRUE

Present(d, k) == \E e \in d : e[1] = k

\* variant: insert, which leaves a key already present as it is
MapInsert(d, k, v) == IF Present(d, k) THEN d ELSE d \cup {<<k, v>>}

\* data_[key] = value
MapAssign(d, k, v) == {e \in d : e[1] # k} \cup {<<k, v>>}

\* variant: the entry's key is returned for its value
MapFindFirst(d, k) == IF Present(d, k) THEN k \o k ELSE << >>

\* data_.find(key): it->second, or "" when find returns end()
MapFind(d, k) == IF Present(d, k) THEN (CHOOSE e \in d : e[1] = k)[2] ELSE << >>

\* variant: nothing is erased
MapEraseNothing(d, k) == d

\* data_.erase(key)
MapErase(d, k) == {e \in d : e[1] # k}

Holders == mtx_.excl \cup mtx_.shared

\* variant: an exclusive lock that does not wait for the readers
CanLockNoWriter == mtx_.excl = {}

\* std::unique_lock<std::shared_timed_mutex>: no other holder of any kind
CanLockUnique == mtx_.excl = {} /\ mtx_.shared = {}

\* variant: a shared lock that does not wait for the writer
CanLockAlways == TRUE

\* std::shared_lock<std::shared_timed_mutex>: no exclusive holder
CanLockShared == mtx_.excl = {}

\* variant: a shared_lock where the method takes a unique_lock
SharedLockKind == "shared"

\* the lock guard each method constructs
SetLockKind == "unique"
GetLockKind == "shared"
RemoveLockKind == "unique"

\* constructing the lock guard blocks until the mutex can be taken that way
Acquire(t, kind) ==
    IF kind = "unique"
    THEN CanLockUnique /\ mtx_' = [mtx_ EXCEPT !.excl = @ \cup {t}]
    ELSE CanLockShared /\ mtx_' = [mtx_ EXCEPT !.shared = @ \cup {t}]

\* variant: the mutex is locked by hand and never unlocked
KeepLocked(t) == mtx_' = mtx_

\* the lock guard's destructor
Release(t) == mtx_' = [excl |-> mtx_.excl \ {t}, shared |-> mtx_.shared \ {t}]

\* a map access made while another thread holds the mutex in a conflicting
\* way is a data race: a write against any holder, a read against a writer
WriteRace(t) ==
    \E u \in Holders \ {t} : pc[u] \in {"set_assign", "rem_erase", "get_find"}
ReadRace(t) == \E u \in Holders \ {t} : pc[u] \in {"set_assign", "rem_erase"}

\* the outcomes of a map write: the write itself, or under a data race also
\* a lost write or a corrupted (here: emptied) table
WriteOutcomes(t, d, written) ==
    IF WriteRace(t) THEN {written, d, EmptyMap} ELSE {written}

\* the outcomes of a map read: the value found, or under a data race also ""
ReadOutcomes(t, found) ==
    IF ReadRace(t) THEN {found, << >>} ELSE {found}

Goto(c, label) == pc' = [pc EXCEPT ![c] = label]

\* KVStore::set, line 14
SetLock(c) ==
    /\ pc[c] = "set_lock"
    /\ Acquire(c, SetLockKind)
    /\ Goto(c, "set_assign")
    /\ UNCHANGED <<data_, main_vars, local_vars, peer_vars, hist_vars>>

\* KVStore::set, line 15
SetAssign(c) ==
    /\ pc[c] = "set_assign"
    /\ data_' \in WriteOutcomes(c, data_, MapAssign(data_, key[c], value[c]))
    /\ Goto(c, "set_unlock")
    /\ UNCHANGED <<mtx_, main_vars, local_vars, peer_vars, hist_vars>>

\* variant: set returns with the mutex still locked
SetReturnLocked(c) ==
    /\ pc[c] = "set_unlock"
    /\ response' = [response EXCEPT ![c] = RESP_OK]
    /\ pc' = [pc EXCEPT ![c] = "write"]
    /\ EndWrite(c, key[c], value[c])
    /\ UNCHANGED <<store_vars, main_vars, buffer, line, key, value, deleted,
                   peer_vars, rx, lines, calls, out, pre, hist_on>>

\* KVStore::set returns, line 16; response = "OK\n"
SetReturn(c) ==
    /\ pc[c] = "set_unlock"
    /\ Release(c)
    /\ response' = [response EXCEPT ![c] = RESP_OK]
    /\ Goto(c, "write")
    /\ EndWrite(c, key[c], value[c])
    /\ UNCHANGED <<data_, main_vars, buffer, line, key, value, deleted, peer_vars,
                   rx, lines, calls, out, pre, hist_on>>

\* KVStore::get, line 26
GetLock(c) ==
    /\ pc[c] = "get_lock"
    /\ Acquire(c, GetLockKind)
    /\ Goto(c, "get_find")
    /\ UNCHANGED <<data_, main_vars, local_vars, peer_vars, hist_vars>>

\* KVStore::get, lines 27-31
GetFind(c) ==
    /\ pc[c] = "get_find"
    /\ \E v \in ReadOutcomes(c, MapFind(data_, key[c])) :
           value' = [value EXCEPT ![c] = v]
    /\ Goto(c, "get_unlock")
    /\ UNCHANGED <<store_vars, main_vars, buffer, line, key, deleted, response,
                   peer_vars, hist_vars>>

\* variant: the handler answers with the value, empty or not
GetReturnEcho(c) ==
    /\ pc[c] = "get_unlock"
    /\ Release(c)
    /\ response' = [response EXCEPT ![c] = value[c] \o <<LF>>]
    /\ Goto(c, "write")
    /\ UNCHANGED <<data_, main_vars, buffer, line, key, value, deleted, peer_vars,
                   hist_vars>>

\* KVStore::get returns, line 32; the handler picks the response
GetReturn(c) ==
    /\ pc[c] = "get_unlock"
    /\ Release(c)
    /\ response' = [response EXCEPT ![c] =
           IF value[c] # << >> THEN value[c] \o <<LF>> ELSE RESP_NOT_FOUND]
    /\ Goto(c, "write")
    /\ UNCHANGED <<data_, main_vars, buffer, line, key, value, deleted, peer_vars,
                   hist_vars>>

\* KVStore::remove, line 42
RemoveLock(c) ==
    /\ pc[c] = "rem_lock"
    /\ Acquire(c, RemoveLockKind)
    /\ Goto(c, "rem_erase")
    /\ UNCHANGED <<data_, main_vars, local_vars, peer_vars, hist_vars>>

\* KVStore::remove, lines 43-47
RemoveErase(c) ==
    /\ pc[c] = "rem_erase"
    /\ IF Present(data_, key[c])
       THEN /\ data_' \in WriteOutcomes(c, data_, MapErase(data_, key[c]))
            /\ deleted' = [deleted EXCEPT ![c] = TRUE]
       ELSE /\ data_' = data_
            /\ deleted' = [deleted EXCEPT ![c] = FALSE]
    /\ Goto(c, "rem_unlock")
    /\ UNCHANGED <<mtx_, main_vars, buffer, line, key, value, response, peer_vars,
                   hist_vars>>

\* KVStore::remove returns, line 48; the handler picks the response
RemoveReturn(c) ==
    /\ pc[c] = "rem_unlock"
    /\ Release(c)
    /\ response' = [response EXCEPT ![c] =
           IF deleted[c] THEN RESP_DELETED ELSE RESP_NOT_FOUND]
    /\ Goto(c, "write")
    /\ EndWrite(c, key[c], << >>)
    /\ UNCHANGED <<data_, main_vars, buffer, line, key, value, deleted, peer_vars,
                   rx, lines, calls, out, pre, hist_on>>

(* ------------------------------ the listener --------------------------- *)
\* the calls Server::Server makes, each of which may fail
CtorCalls == {"socket", "setsockopt", "bind", "listen"}

\* Server::Server succeeds: socket, setsockopt, bind and listen all return
\* >= 0; main goes on to server.start()
ConstructOk ==
    /\ lpc = "ctor"
    /\ lpc' = "accept"
    /\ server_fd_' = "open"
    /\ UNCHANGED <<store_vars, process, cerr, pc, local_vars, peer_vars,
                   hist_vars>>

\* Server::Server: `call` returns < 0; the socket, if socket() had made one,
\* is closed and std::runtime_error is thrown.  main constructs the Server
\* before its try block (main.cpp, line 8), so nothing catches the
\* exception: std::terminate aborts the process.
ConstructFail(call) ==
    /\ lpc = "ctor"
    /\ lpc' = "terminated"
    /\ server_fd_' = IF call = "socket" THEN "none" ELSE "closed"
    /\ process' = "aborted"
    /\ UNCHANGED <<store_vars, cerr, pc, local_vars, peer_vars, hist_vars>>

\* variant: the loop joins the handler threads before it accepts again
AcceptJoined(c) ==
    /\ lpc = "accept"
    /\ pc[c] = "none"
    /\ \A d \in Conns : d < c => pc[d] = "closed"
    /\ pc' = [pc EXCEPT ![c] = "read"]
    /\ UNCHANGED <<store_vars, main_vars, local_vars, peer_vars, hist_vars>>

\* Server::start: accept() returns a client socket and the loop detaches a
\* thread running handle_client on it; connection c is the c-th one the
\* loop accepts
Accept(c) ==
    /\ lpc = "accept"
    /\ pc[c] = "none"
    /\ \A d \in Conns : d < c => pc[d] # "none"
    /\ Goto(c, "read")
    /\ UNCHANGED <<store_vars, main_vars, local_vars, peer_vars, hist_vars>>

\* Server::start: accept() returns < 0; a line is logged and the loop
\* continues
AcceptFail ==
    /\ lpc = "accept"
    /\ cerr < MaxAcceptFails
    /\ cerr' = cerr + 1
    /\ UNCHANGED <<store_vars, lpc, server_fd_, process, pc, local_vars,
                   peer_vars, hist_vars>>

(* ------------------------------- the peer ------------------------------ *)
\* the client writes its next message to the connection.  The handler sees
\* the peer only in read(), so the peer's steps are taken while the handler
\* is about to read: taken earlier they commute with the handler's steps.
ClientSend(c) ==
    /\ pc[c] = "read"
    /\ ~peer_closed[c]
    /\ todo[c] # << >>
    /\ net' = [net EXCEPT ![c] = @ \o Head(todo[c])]
    /\ todo' = [todo EXCEPT ![c] = Tail(@)]
    /\ UNCHANGED <<store_vars, main_vars, pc, local_vars, peer_closed, hist_vars>>

\* a client that never stops: once the handler has taken what it sent, it
\* sends its next message, and starts its script over at the end
ClientRepeat(c) ==
    /\ pc[c] = "read"
    /\ ~peer_closed[c]
    /\ todo[c] # << >>
    /\ net[c] = << >>
    /\ net' = [net EXCEPT ![c] = Head(todo[c])]
    /\ todo' = [todo EXCEPT ![c] = Append(Tail(@), Head(@))]
    /\ UNCHANGED <<store_vars, main_vars, pc, local_vars, peer_closed, hist_vars>>

\* the client, having sent all it meant to, closes its end
ClientClose(c) ==
    /\ pc[c] = "read"
    /\ ~peer_closed[c]
    /\ todo[c] = << >>
    /\ peer_closed' = [peer_closed EXCEPT ![c] = TRUE]
    /\ UNCHANGED <<store_vars, main_vars, pc, local_vars, net, todo, hist_vars>>

(* ---------------------------- handle_client ---------------------------- *)
\* read() returns n >= 1 bytes into chunk, which is appended to buffer
Read(c, n) ==
    /\ pc[c] = "read"
    /\ n >= 1 /\ n <= Len(net[c]) /\ n <= ChunkSize - 1
    /\ LET chunk == SubSeq(net[c], 1, n)
       IN  /\ buffer' = [buffer EXCEPT ![c] = AppendChunk(@, chunk)]
           /\ rx' = IF hist_on THEN [rx EXCEPT ![c] = @ \o chunk] ELSE rx
    /\ net' = [net EXCEPT ![c] = SubSeq(@, n + 1, Len(@))]
    /\ Goto(c, "extract")
    /\ UNCHANGED <<store_vars, main_vars, line, key, value, deleted, response,
                   peer_closed, todo, lines, calls, out, pre, stable,
                   expect, hist_on>>

\* variant: at end of stream the leftover is taken for a last line
ReadEOFFlush(c) ==
    /\ pc[c] = "read"
    /\ net[c] = << >> /\ peer_closed[c]
    /\ buffer' = [buffer EXCEPT ![c] = IF @ = << >> THEN @ ELSE Append(@, LF)]
    /\ Goto(c, IF buffer[c] = << >> THEN "closed" ELSE "extract")
    /\ UNCHANGED <<store_vars, main_vars, line, key, value, deleted, response,
                   peer_vars, hist_vars>>

\* read() returns 0: the peer closed and nothing is left to read
ReadEOF(c) ==
    /\ pc[c] = "read"
    /\ net[c] = << >> /\ peer_closed[c]
    /\ Goto(c, "closed")
    /\ UNCHANGED <<store_vars, main_vars, local_vars, peer_vars, hist_vars>>

\* variant: a read error ends the process, every handler with it
ReadErrorFatal(c) ==
    /\ pc[c] = "read"
    /\ pc' = [d \in Conns |-> IF pc[d] = "none" THEN "none" ELSE "closed"]
    /\ lpc' = "terminated"
    /\ process' = "aborted"
    /\ UNCHANGED <<store_vars, server_fd_, cerr, local_vars, peer_vars,
                   hist_vars>>

\* read() returns -1
ReadError(c) ==
    /\ pc[c] = "read"
    /\ Goto(c, "closed")
    /\ UNCHANGED <<store_vars, main_vars, local_vars, peer_vars, hist_vars>>

\* the inner loop ends: buffer holds no '\n'
NoLine(c) ==
    /\ pc[c] = "extract"
    /\ Find(buffer[c], LF) = 0
    /\ Goto(c, "read")
    /\ UNCHANGED <<store_vars, main_vars, local_vars, peer_vars, hist_vars>>

\* variant: an empty line is answered like an unknown command
EmptyLineAnswered(c) ==
    /\ pc[c] = "extract"
    /\ Find(buffer[c], LF) = 1
    /\ buffer' = [buffer EXCEPT ![c] = Tail(@)]
    /\ out' = Record(out, c, RESP_ERR_UNKNOWN)
    /\ UNCHANGED <<store_vars, main_vars, pc, line, key, value, deleted, response,
                   peer_vars, rx, lines, calls, pre, stable, expect, hist_on>>

\* the line extracted is empty: continue
EmptyLine(c) ==
    /\ pc[c] = "extract"
    /\ Find(buffer[c], LF) = 1
    /\ buffer' = [buffer EXCEPT ![c] = Tail(@)]
    /\ UNCHANGED <<store_vars, main_vars, pc, line, key, value, deleted, response,
                   peer_vars, hist_vars>>

\* one non-empty line is extracted and parsed, up to the store call or the
\* error response
DispatchLine(c) ==
    /\ pc[c] = "extract"
    /\ LET pos == Find(buffer[c], LF)
           ln == SubSeq(buffer[c], 1, pos - 1)
           p == ParseLine(ln)
       IN  /\ pos > 1
           /\ buffer' = [buffer EXCEPT ![c] = SubSeq(@, pos + 1, Len(@))]
           /\ line' = [line EXCEPT ![c] = ln]
           /\ key' = [key EXCEPT ![c] = p.key]
           /\ value' = [value EXCEPT ![c] = p.value]
           /\ response' = [response EXCEPT ![c] = p.response]
           /\ lines' = Record(lines, c, ln)
           /\ calls' = Record(calls, c, p)
           /\ Goto(c, CASE p.op = "set" -> "set_lock"
                        [] p.op = "get" -> "get_lock"
                        [] p.op = "remove" -> "rem_lock"
                        [] OTHER -> "write")
           /\ CASE p.op \in {"set", "remove"} -> BeginWrite(c, p.key)
                [] p.op = "get" -> BeginRead(c, p.key)
                [] OTHER -> UNCHANGED <<stable, expect>>
    /\ pre' = [pre EXCEPT ![c] = data_]
    /\ UNCHANGED <<store_vars, main_vars, deleted, peer_vars, rx, out, hist_on>>

\* the first bytes of every error response
ERROR_PREFIX == <<"E", "R", "R", "O", "R", ":">>

\* variant: after an error response the handler closes the connection
WriteCloseOnError(c) ==
    /\ pc[c] = "write"
    /\ out' = Record(out, c, response[c])
    /\ line' = [line EXCEPT ![c] = << >>]
    /\ key' = [key EXCEPT ![c] = << >>]
    /\ value' = [value EXCEPT ![c] = << >>]
    /\ deleted' = [deleted EXCEPT ![c] = FALSE]
    /\ response' = [response EXCEPT ![c] = << >>]
    /\ pre' = [pre EXCEPT ![c] = EmptyMap]
    /\ expect' = [expect EXCEPT ![c] = NoExpect]
    /\ Goto(c, IF SubSeq(response[c], 1, Len(ERROR_PREFIX)) = ERROR_PREFIX
               THEN "closed" ELSE "extract")
    /\ UNCHANGED <<store_vars, main_vars, buffer, peer_vars, rx, lines, calls,
                   stable, hist_on>>

\* write() returns >= 0; the loop body ends and its locals go out of scope
Write(c) ==
    /\ pc[c] = "write"
    /\ out' = Record(out, c, response[c])
    /\ line' = [line EXCEPT ![c] = << >>]
    /\ key' = [key EXCEPT ![c] = << >>]
    /\ value' = [value EXCEPT ![c] = << >>]
    /\ deleted' = [deleted EXCEPT ![c] = FALSE]
    /\ response' = [response EXCEPT ![c] = << >>]
    /\ pre' = [pre EXCEPT ![c] = EmptyMap]
    /\ expect' = [expect EXCEPT ![c] = NoExpect]
    /\ Goto(c, "extract")
    /\ UNCHANGED <<store_vars, main_vars, buffer, peer_vars, rx, lines, calls,
                   stable, hist_on>>

\* variant: a failed write is ignored and the loop goes on
WriteFailIgnored(c) ==
    /\ pc[c] = "write"
    /\ Goto(c, "extract")
    /\ UNCHANGED <<store_vars, main_vars, local_vars, peer_vars, hist_vars>>

\* write() returns < 0: close and return
WriteFail(c) ==
    /\ pc[c] = "write"
    /\ Goto(c, "closed")
    /\ UNCHANGED <<store_vars, main_vars, local_vars, peer_vars, hist_vars>>

(* ----------------------------- client inputs --------------------------- *)
Join2(a, b) == a \o <<SP>> \o b
Join3(a, b, c) == a \o <<SP>> \o b \o <<SP>> \o c
Msg(ln) == ln \o <<LF>>

KeyA == <<"a">>
KeyB == <<"b">>
Val1 == <<"1">>
Val2 == <<"x", "y">>
Keys == {KeyA, KeyB}
Vals == {Val1, Val2}

\* all sequences over S of length at most n
SeqsUpTo(S, n) == UNION {[1..m -> S] : m \in 0..n}

(* ---------------------------- specifications --------------------------- *)
InitState(scripts, on) ==
    /\ data_ = EmptyMap
    /\ mtx_ = [excl |-> {}, shared |-> {}]
    /\ lpc = "ctor"
    /\ server_fd_ = "none"
    /\ process = "running"
    /\ cerr = 0
    /\ pc = [c \in Conns |-> "none"]
    /\ buffer = [c \in Conns |-> << >>]
    /\ line = [c \in Conns |-> << >>]
    /\ key = [c \in Conns |-> << >>]
    /\ value = [c \in Conns |-> << >>]
    /\ deleted = [c \in Conns |-> FALSE]
    /\ response = [c \in Conns |-> << >>]
    /\ net = [c \in Conns |-> << >>]
    /\ peer_closed = [c \in Conns |-> FALSE]
    /\ todo \in scripts
    /\ hist_on = on
    /\ rx = [c \in Conns |-> << >>]
    /\ lines = [c \in Conns |-> << >>]
    /\ calls = [c \in Conns |-> << >>]
    /\ out = [c \in Conns |-> << >>]
    /\ pre = [c \in Conns |-> EmptyMap]
    /\ stable = [known |-> {}, dirty |-> {}]
    /\ expect = [c \in Conns |-> NoExpect]

InitWith(scripts) == InitState(scripts, TRUE)

\* the steps of connection c but its reads: its peer and its handler thread
Connection(c) ==
    \/ Accept(c)
    \/ ClientSend(c)
    \/ ClientClose(c)
    \/ ReadEOF(c)
    \/ ReadError(c)
    \/ NoLine(c)
    \/ EmptyLine(c)
    \/ DispatchLine(c)
    \/ SetLock(c) \/ SetAssign(c) \/ SetReturn(c)
    \/ GetLock(c) \/ GetFind(c) \/ GetReturn(c)
    \/ RemoveLock(c) \/ RemoveErase(c) \/ RemoveReturn(c)
    \/ Write(c)
    \/ WriteFail(c)

\* Spec: concurrent clients sending whole commands on a few keys, MaxCmds
\* commands in all; every read returns all the bytes pending on the socket.
ConcMsgSeq ==
    <<Msg(Join3(CMD_SET, KeyA, Val1)), Msg(Join3(CMD_SET, KeyB, Val2)),
      Msg(Msg(<< >>) \o Join2(CMD_GET, KeyA)), Msg(Join2(CMD_DEL, KeyA))>>

ConcMsgs == {ConcMsgSeq[i] : i \in DOMAIN ConcMsgSeq}

\* the ways to give each connection in S a script, n messages in all at most
RECURSIVE Scripts(_, _)
Scripts(S, n) ==
    IF S = {} THEN {<< >>}
    ELSE LET c == CHOOSE x \in S : TRUE
         IN  UNION {{[x \in S |-> IF x = c THEN s ELSE f[x]]
                        : f \in Scripts(S \ {c}, n - Len(s))}
                    : s \in SeqsUpTo(ConcMsgs, n)}

\* connections are interchangeable: the scripts are listed up to a renaming
\* of the connections, in decreasing order of a numbering of the scripts
RECURSIVE ScriptCode(_)
ScriptCode(s) ==
    IF s = << >> THEN 0
    ELSE (CHOOSE i \in DOMAIN ConcMsgSeq : ConcMsgSeq[i] = Head(s))
             + (Len(ConcMsgSeq) + 1) * ScriptCode(Tail(s))

ConcScripts ==
    {f \in Scripts(Conns, MaxCmds) :
        \A c \in Conns : c + 1 \in Conns => ScriptCode(f[c]) >= ScriptCode(f[c + 1])}

Init == InitWith(ConcScripts)

Next ==
    \/ ConstructOk
    \/ \E call \in CtorCalls : ConstructFail(call)
    \/ \E c \in Conns : Connection(c) \/ Read(c, Len(net[c]))

Spec == Init /\ [][Next]_vars

\* SpecListen: the first connection's client sends a SET and, after an empty
\* line, a GET; the others a DEL or a SET each; the listener's accepts may
\* fail up to MaxAcceptFails times; every read returns all the bytes
\* pending on the socket.
ListenScripts ==
    [c \in Conns |->
        IF c = 1 THEN <<ConcMsgSeq[1], ConcMsgSeq[3]>>
        ELSE <<ConcMsgSeq[4 - ((2 * (c - 2)) % 4)]>>]

InitListen == InitWith({ListenScripts})

NextListen == Next \/ AcceptFail

SpecListen == InitListen /\ [][NextListen]_vars

\* SpecGet: the first client sends a SET of key a in one of its forms (a
\* value, the value NOT_FOUND, a value of one space, no value after the
\* space, no value at all) and then a GET of a; the second a DEL or, after
\* an empty line, a GET of a; the others a GET of a; every read returns all
\* the bytes pending on the socket.
NOT_FOUND_TEXT == SubSeq(RESP_NOT_FOUND, 1, Len(RESP_NOT_FOUND) - 1)

SetForms ==
    {Msg(Join3(CMD_SET, KeyA, Val1)),
     Msg(Join3(CMD_SET, KeyA, NOT_FOUND_TEXT)),
     Msg(Join3(CMD_SET, KeyA, <<SP>>)),
     Msg(Join2(CMD_SET, KeyA) \o <<SP>>),
     Msg(Join2(CMD_SET, KeyA))}

GetScripts ==
    {[c \in Conns |->
         IF c = 1 THEN <<s, Msg(Join2(CMD_GET, KeyA))>>
         ELSE IF c = 2 THEN <<t>>
         ELSE <<Msg(Join2(CMD_GET, KeyA))>>]
        : <<s, t>> \in SetForms \X {ConcMsgSeq[4], ConcMsgSeq[3]}}

InitGet == InitWith(GetScripts)

SpecGet == InitGet /\ [][Next]_vars

\* SpecLive: clients that never stop.  The first repeats an empty line and a
\* GET, the second a SET and a DEL of the same key, the others a SET of
\* another key; no history is kept, so the behaviours are endless.  The
\* scheduler is fair to every thread inside the Store: a thread that can
\* take its next step there, and stays able to, takes it.  The mutex
\* promises no more: a thread waiting for it is not runnable while another
\* holds it.
LiveScripts ==
    [c \in Conns |->
        IF c = 1 THEN <<ConcMsgSeq[3]>>
        ELSE IF c = 2 THEN <<ConcMsgSeq[1], ConcMsgSeq[4]>>
        ELSE <<ConcMsgSeq[2]>>]

InitLive == InitState({LiveScripts}, FALSE)

\* a call into the Store by the handler of connection c
StoreCall(c) ==
    \/ SetLock(c) \/ SetAssign(c) \/ SetReturn(c)
    \/ GetLock(c) \/ GetFind(c) \/ GetReturn(c)
    \/ RemoveLock(c) \/ RemoveErase(c) \/ RemoveReturn(c)

\* a step of the handler thread of connection c that no fault ends
HandlerStep(c) ==
    \/ Read(c, Len(net[c]))
    \/ NoLine(c)
    \/ EmptyLine(c)
    \/ DispatchLine(c)
    \/ StoreCall(c)
    \/ Write(c)

NextLive ==
    \/ ConstructOk
    \/ \E call \in CtorCalls : ConstructFail(call)
    \/ \E c \in Conns :
          \/ Accept(c)
          \/ ClientRepeat(c)
          \/ HandlerStep(c)
          \/ ReadError(c)
          \/ WriteFail(c)

SpecLive ==
    InitLive /\ [][NextLive]_vars /\ \A c \in Conns : WF_vars(StoreCall(c))

\* SpecProto: one client on connection 1 sending up to MaxMsgs messages that
\* cover the forms of every command; a read returns any number of the bytes
\* pending, so every fragmentation of the stream is explored.
ProtoMsgs ==
    {Msg(Join3(CMD_SET, KeyA, Val1)),
     Msg(Join3(CMD_SET, KeyB, Val1)),
     Msg(Join3(CMD_SET, KeyA, <<SP, "x", SP, "y">>)),
     Msg(Join2(CMD_SET, KeyA) \o <<SP>>),
     Msg(CMD_SET),
     Msg(Join2(CMD_GET, KeyA)),
     Msg(CMD_GET),
     Msg(Join2(CMD_DEL, KeyA)),
     Msg(CMD_DEL),
     Msg(Join2(CMD_DELETE, KeyA)),
     Msg(Join2(<<"F", "O", "O">>, <<"b", "a", "r">>)),
     Msg(Join2(<<"g", "e", "t">>, KeyA)),
     Msg(<< >>)}

OnlyConn1(S) == {[c \in Conns |-> IF c = 1 THEN s ELSE << >>] : s \in S}

InitProto == InitWith(OnlyConn1(SeqsUpTo(ProtoMsgs, MaxMsgs)))

NextProto ==
    \/ ConstructOk
    \/ \E call \in CtorCalls : ConstructFail(call)
    \/ Connection(1)
    \/ \E n \in 1..Len(net[1]) : Read(1, n)

SpecProto == InitProto /\ [][NextProto]_vars

\* SpecE2E: one client on connection 1 running an end-to-end scenario on a
\* key and a value, with the delete command spelt DEL or DELETE; every
\* fragmentation of the stream is explored.
E2EScripts ==
    UNION {{<<Msg(Join3(CMD_SET, k, v)), Msg(Join2(CMD_GET, k)),
              Msg(Join2(d, k)), Msg(Join2(CMD_GET, k))>>,
            <<Msg(Join3(CMD_SET, k, v)), Msg(Join2(d, k)), Msg(Join2(d, k))>>,
            <<Msg(<< >>), Msg(Join3(CMD_SET, k, v)), Msg(Join2(CMD_GET, k))>>,
            <<Msg(d), Msg(Join2(d, k))>>}
           : <<k, v, d>> \in Keys \X Vals \X {CMD_DEL, CMD_DELETE}}

InitE2E == InitWith(OnlyConn1(E2EScripts))

SpecE2E == InitE2E /\ [][NextProto]_vars

\* SpecBytes: one client on connection 1 sending up to MaxMsgs pieces of a
\* byte stream, among them a command cut in two and one holding a zero byte;
\* every fragmentation of the stream is explored.
ByteMsgs ==
    {<<"S", "E">>,
     <<"T", SP>> \o KeyA \o <<SP>> \o Val1 \o <<LF>>,
     Join2(CMD_GET, KeyA) \o <<NUL, LF>>,
     Msg(Join2(CMD_DEL, KeyA)),
     Msg(<< >>)}

InitBytes == InitWith(OnlyConn1(SeqsUpTo(ByteMsgs, MaxMsgs)))

SpecBytes == InitBytes /\ [][NextProto]_vars

(* ======================================================================= *)
(*                               the claims                                 *)
(* ======================================================================= *)

(* ------------- the protocol's words, read off a line by position ------- *)
TokenStarts(ln) ==
    {i \in 1..Len(ln) : ~IsSpace(ln[i]) /\ (i = 1 \/ IsSpace(ln[i - 1]))}
TokenEnds(ln) ==
    {i \in 1..Len(ln) : ~IsSpace(ln[i]) /\ (i = Len(ln) \/ IsSpace(ln[i + 1]))}
Nth(S, n) == CHOOSE x \in S : Cardinality({y \in S : y < x}) = n - 1

\* the n-th whitespace-delimited token of the line, "" when there is none
Token(ln, n) ==
    IF Cardinality(TokenStarts(ln)) >= n
    THEN SubSeq(ln, Nth(TokenStarts(ln), n), Nth(TokenEnds(ln), n))
    ELSE << >>

\* the remainder of the line after the key, one leading space stripped
RestAfterKey(ln) ==
    IF Cardinality(TokenStarts(ln)) >= 2
    THEN SubSeq(ln, Nth(TokenEnds(ln), 2) + 1, Len(ln))
    ELSE << >>
ValueOf(ln) ==
    LET r == RestAfterKey(ln)
    IN  IF r # << >> /\ r[1] = SP THEN SubSeq(r, 2, Len(r)) ELSE r

IsPrefix(a, b) == Len(a) <= Len(b) /\ SubSeq(b, 1, Len(a)) = a

\* the store's entry for k, "" when k is absent
Lookup(d, k) == IF \E e \in d : e[1] = k THEN (CHOOSE e \in d : e[1] = k)[2] ELSE << >>
Without(d, k) == {e \in d : e[1] # k}

(* --------------------------------- C1 ---------------------------------- *)
E2ELines(k, v, del) ==
    <<Join3(CMD_SET, k, v), Join2(CMD_GET, k), Join2(del, k), Join2(CMD_GET, k)>>
E2EResponses(v) == <<RESP_OK, v \o <<LF>>, RESP_DELETED, RESP_NOT_FOUND>>

\* the responses written so far to a connection whose lines so far are the
\* scenario SET k v, GET k, <del> k, GET k on a fresh store are OK, v,
\* DELETED, NOT_FOUND, in this order
E2EAnswers(del) ==
    \A k \in Keys, v \in Vals :
        IsPrefix(lines[1], E2ELines(k, v, del))
            => IsPrefix(out[1], E2EResponses(v))

\* C1 as stated: the scenario with the delete command spelt DELETE is
\* answered OK, the value, DELETED, NOT_FOUND.
C1_E2E_DELETE == E2EAnswers(CMD_DELETE)

\* C1 amended: for every key and non-empty one-token value, the scenario
\* SET k v, GET k, DEL k, GET k on a fresh store, on one connection, is
\* answered OK, v, DELETED, NOT_FOUND in this order.
C1_E2E_DEL == E2EAnswers(CMD_DEL)

C1_Witness ==
    \E k \in Keys, v \in Vals :
        lines[1] = E2ELines(k, v, CMD_DEL) /\ out[1] = E2EResponses(v)

C9_GetDispatch ==
    \A c \in Conns :
        pc[c] = "write" /\ Token(line[c], 1) = CMD_GET
                        /\ Token(line[c], 2) # << >> =>
            LET k == Token(line[c], 2)
            IN  /\ response[c] = IF \E e \in pre[c] : e[1] = k
                                 THEN Lookup(pre[c], k) \o <<LF>>
                                 ELSE RESP_NOT_FOUND
                /\ data_ = pre[c]

\* a GET of a present key, answered
C9_Witness ==
    /\ pc[1] = "write"
    /\ line[1] = Join2(CMD_GET, KeyA)
    /\ \E e \in pre[1] : e[1] = KeyA
    /\ response[1] # RESP_NOT_FOUND

(* --------------------------------- C10 --------------------------------- *)
\* a line whose first token is <del>, once dispatched: with a key token the
\* response is DELETED and the key removed if the key existed, NOT_FOUND and
\* the store as it was if not; with no key the response is the DEL error;
\* and <del> k twice in a row on a present key gives DELETED then NOT_FOUND
DeleteDispatch(del) ==
    \A c \in Conns :
        /\ pc[c] = "write" /\ Token(line[c], 1) = del =>
              LET k == Token(line[c], 2)
              IN  IF k = << >>
                  THEN response[c] = RESP_ERR_DEL /\ data_ = pre[c]
                  ELSE IF \E e \in pre[c] : e[1] = k
                  THEN response[c] = RESP_DELETED /\ data_ = Without(pre[c], k)
                  ELSE response[c] = RESP_NOT_FOUND /\ data_ = pre[c]
        /\ \A k \in Keys, v \in Vals :
              /\ IsPrefix(lines[c], <<Join3(CMD_SET, k, v), Join2(del, k), Join2(del, k)>>)
                    => IsPrefix(out[c], <<RESP_OK, RESP_DELETED, RESP_NOT_FOUND>>)
              /\ IsPrefix(lines[c], <<del, Join2(del, k)>>)
                    => IsPrefix(out[c], <<RESP_ERR_DEL, RESP_NOT_FOUND>>)

\* C10 as stated: the delete command is the word DELETE.
C10_DeleteDispatch_DELETE == DeleteDispatch(CMD_DELETE)

\* C10 amended: the delete command is the word DEL: `DEL k` is answered
\* DELETED and removes k when k existed and NOT_FOUND when it did not, twice
\* in a row on a present key DELETED then NOT_FOUND, and `DEL` with no key
\* ERROR: DEL requires key.
C10_DeleteDispatch_DEL == DeleteDispatch(CMD_DEL)

C10_Witness ==
    \E k \in Keys, v \in Vals :
        /\ lines[1] = <<Join3(CMD_SET, k, v), Join2(CMD_DEL, k), Join2(CMD_DEL, k)>>
        /\ out[1] = <<RESP_OK, RESP_DELETED, RESP_NOT_FOUND>>

(* --------------------------------- C2 ---------------------------------- *)
SetStep(c) == pc[c] = "set_assign" /\ pc'[c] = "set_unlock"
GetStep(c) == pc[c] = "get_find" /\ pc'[c] = "get_unlock"
RemoveStep(c) == pc[c] = "rem_erase" /\ pc'[c] = "rem_unlock"

\* C2: set(k, v) maps k to v, whatever k held, and changes no other key; a
\* get(k) begun after the calls on k returned, with no set or remove of k
\* since, returns the value the last of them left.
C2_SetThenGet ==
    [][\A c \in Conns :
          /\ SetStep(c) => data_' = Without(data_, key[c]) \cup {<<key[c], value[c]>>}
          /\ GetStep(c) /\ expect[c].known => value'[c] = expect[c].v]_vars

\* a get that follows a set of the same key and returns its value
C2_Witness ==
    /\ pc[1] = "get_unlock"
    /\ lines[1] = <<Join3(CMD_SET, KeyA, Val1), Join2(CMD_GET, KeyA)>>
    /\ expect[1].known
    /\ value[1] = Val1

LFs(s) == {i \in 1..Len(s) : s[i] = LF}
LineAt(s, j) ==
    LET e == Nth(LFs(s), j)
        b == IF j = 1 THEN 1 ELSE Nth(LFs(s), j - 1) + 1
    IN  SubSeq(s, b, e - 1)
LinesOf(s) == [j \in 1..Cardinality(LFs(s)) |-> LineAt(s, j)]
NonEmptyLine(ln) == ln # << >>

\* what one delivery of the whole stream s leaves to dispatch
OneDelivery(s) == SelectSeq(LinesOf(AppendChunk(<< >>, s)), NonEmptyLine)

\* C4: whenever the handler waits for more data, the lines it has extracted
\* and dispatched are those one delivery of all the bytes read would give.
C4_FragmentationIndependence ==
    \A c \in Conns : pc[c] = "read" => lines[c] = OneDelivery(rx[c])

\* the same for the streams that hold no zero byte
C4_TextStreams ==
    \A c \in Conns :
        pc[c] = "read" /\ Find(rx[c], NUL) = 0 => lines[c] = OneDelivery(rx[c])

(* --------------------------------- C5 ---------------------------------- *)
\* the store calls connection c has made: line i of c, parsed
CallOf(c, i) == calls[c][i]
WritesKey(c, i, k) ==
    LET call == CallOf(c, i) IN call.op \in {"set", "remove"} /\ call.key = k

\* the i-th line of c is a set that has returned
SetReturned(c, i) ==
    /\ i \in 1..Len(lines[c])
    /\ CallOf(c, i).op = "set"
    /\ i < Len(lines[c]) \/ pc[c] \notin {"set_lock", "set_assign", "set_unlock"}

\* no other connection sets or removes the key of c's i-th line, nor does c
\* after that line
OwnKey(c, i) ==
    LET k == CallOf(c, i).key
    IN  /\ \A d \in Conns \ {c} : \A j \in 1..Len(lines[d]) : ~WritesKey(d, j, k)
        /\ \A j \in (i + 1)..Len(lines[c]) : ~WritesKey(c, j, k)

\* C5: every set that has returned, on a key no other connection writes,
\* has its key in the store with the value it wrote, whatever the other
\* connections did meanwhile.
C5_NoLostUpdate ==
    \A c \in Conns : \A i \in 1..Len(lines[c]) :
        LET call == CallOf(c, i)
        IN  SetReturned(c, i) /\ OwnKey(c, i)
                => <<call.key, call.value>> \in data_

\* two connections have each had a set return, on distinct keys, neither
\* having written its response yet
C5_Witness ==
    \E c, d \in Conns :
        /\ c # d
        /\ pc[c] = "write" /\ pc[d] = "write"
        /\ SetReturned(c, 1) /\ SetReturned(d, 1)
        /\ Len(lines[c]) = 1 /\ Len(lines[d]) = 1
        /\ CallOf(c, 1).key # CallOf(d, 1).key
        /\ OwnKey(c, 1) /\ OwnKey(d, 1)

(* --------------------------------- C6 ---------------------------------- *)
InSetOrRemove(t) == pc[t] \in {"set_assign", "set_unlock", "rem_erase", "rem_unlock"}
InGet(t) == pc[t] \in {"get_find", "get_unlock"}

\* C6: while a thread is inside the critical section of set or remove, no
\* other thread is inside the critical section of set, remove or get.
C6_Exclusion ==
    \A t, u \in Conns :
        t # u /\ InSetOrRemove(t) => ~InSetOrRemove(u) /\ ~InGet(u)

\* a thread is inside set's critical section while another waits to enter
\* a critical section of its own
C6_Witness ==
    \E t, u \in Conns :
        /\ t # u
        /\ pc[t] = "set_assign"
        /\ pc[u] \in {"set_lock", "get_lock", "rem_lock"}

\* two get critical sections overlap
C6_ReadersOverlap == \E t, u \in Conns : t # u /\ InGet(t) /\ InGet(u)

(* --------------------------------- C7 ---------------------------------- *)
\* C7: a get returns what the sets and removes of its key that returned
\* before it began left, when none has been in progress since; and the
\* store holds, for every key with no set or remove in progress or
\* overlapped, what the last of them to return left.
C7_Visibility ==
    /\ \A c \in Conns :
           pc[c] = "get_unlock" /\ expect[c].known => value[c] = expect[c].v
    /\ \A k \in Keys :
           k \notin stable.dirty => Lookup(data_, k) = StableValue(k)

\* connection d's get returns the value a set of connection c left
C7_Witness ==
    \E c, d \in Conns :
        /\ c # d
        /\ pc[d] = "get_unlock" /\ expect[d].known /\ value[d] # << >>
        /\ \E i \in 1..Len(lines[c]) :
               SetReturned(c, i) /\ CallOf(c, i).key = key[d]
                                 /\ CallOf(c, i).value = value[d]

(* --------------------------------- C11 --------------------------------- *)
\* a malformed command (SET without key or value, GET or <del> without key)
\* or an unknown one (first token none of SET, GET, <del>)
ProtocolFault(ln, del) ==
    LET t1 == Token(ln, 1)
        k == Token(ln, 2)
    IN  \/ t1 = CMD_SET /\ (k = << >> \/ ValueOf(ln) = << >>)
        \/ t1 \in {CMD_GET, del} /\ k = << >>
        \/ t1 \notin {CMD_SET, CMD_GET, del}

\* the handler about to answer a line that is a protocol fault: the response
\* begins with ERROR:, the store is as it was before the line, no response
\* to the line has been written yet, and the step that writes it appends
\* that one response and goes on to the next line of the buffer
FaultAnswered(del) ==
    \A c \in Conns :
        pc[c] = "write" /\ ProtocolFault(line[c], del) =>
            /\ IsPrefix(ERROR_PREFIX, response[c])
            /\ data_ = pre[c]
            /\ Len(out[c]) = Len(lines[c]) - 1
            /\ out'[c] # out[c] =>
                   /\ out'[c] = Append(out[c], response[c])
                   /\ pc'[c] = "extract"
                   /\ buffer'[c] = buffer[c]
                   /\ data_' = data_

\* C11 as stated: the recognised command words are SET, GET and DELETE.
C11_ProtocolFaults_DELETE == [][FaultAnswered(CMD_DELETE)]_vars

\* C11 amended: every line that is a malformed command (SET missing key or
\* value, GET or DEL missing key) or whose first token is none of SET, GET,
\* DEL gets exactly one response beginning with ERROR:, leaves the store
\* unchanged and leaves the connection open for the lines after it.
C11_ProtocolFaults_DEL == [][FaultAnswered(CMD_DEL)]_vars

\* an unknown command was answered with its error and the command after it
\* on the same connection was carried out
C11_Witness ==
    /\ lines[1] = <<Join2(<<"F", "O", "O">>, <<"b", "a", "r">>),
                    Join3(CMD_SET, KeyA, Val1)>>
    /\ out[1] = <<RESP_ERR_UNKNOWN, RESP_OK>>
    /\ data_ = {<<KeyA, Val1>>}

(* --------------------------------- C12 --------------------------------- *)
\* one complete line: bytes other than '\n', then one '\n'
OneLine(resp) == resp # << >> /\ Find(resp, LF) = Len(resp)

\* resp is a response to the command the line parsed to
Answers(call, resp) ==
    CASE call.op = "set" -> resp = RESP_OK
      [] call.op = "get" ->
             resp = RESP_NOT_FOUND \/ ~IsPrefix(ERROR_PREFIX, resp)
      [] call.op = "remove" -> resp \in {RESP_DELETED, RESP_NOT_FOUND}
      [] OTHER -> resp = call.response /\ IsPrefix(ERROR_PREFIX, resp)

\* the lines extracted and the responses written on connection c go in step
InOrder(c) ==
    /\ Len(out[c]) <= Len(lines[c]) /\ Len(lines[c]) <= Len(out[c]) + 1
    /\ pc[c] \in {"read", "extract"} => Len(out[c]) = Len(lines[c])
    /\ \A i \in 1..Len(out[c]) :
           OneLine(out[c][i]) /\ Answers(CallOf(c, i), out[c][i])
    \* a line is dispatched only when every earlier one has its response
    /\ lines'[c] # lines[c] =>
           /\ Len(out[c]) = Len(lines[c])
           /\ Find(buffer[c], LF) > 1
           /\ lines'[c] = Append(lines[c], SubSeq(buffer[c], 1, Find(buffer[c], LF) - 1))
    \* a response is written only to the line dispatched last
    /\ out'[c] # out[c] =>
           /\ Len(lines[c]) = Len(out[c]) + 1
           /\ out'[c] = Append(out[c], response[c])
    \* an empty line is dropped: no response, no store access
    /\ pc[c] = "extract" /\ Find(buffer[c], LF) = 1 /\ buffer'[c] # buffer[c] =>
           /\ buffer'[c] = Tail(buffer[c])
           /\ pc'[c] = "extract"
           /\ lines'[c] = lines[c] /\ out'[c] = out[c]
           /\ data_' = data_ /\ mtx_' = mtx_

\* C12: on every connection each non-empty line extracted gets exactly one
\* response, a single line ended by '\n'; the i-th response answers the i-th
\* non-empty line; no line is dispatched before the response to the line
\* before it is written; an empty line gets no response and no store access.
C12_InOrder == [][\A c \in Conns : InOrder(c)]_vars

\* an empty line, then two commands, each answered in turn
C12_Witness ==
    /\ rx[1] # << >> /\ rx[1][1] = LF
    /\ lines[1] = <<Join3(CMD_SET, KeyA, Val1), Join2(CMD_GET, KeyA)>>
    /\ out[1] = <<RESP_OK, Val1 \o <<LF>>>>

(* --------------------------------- C13 --------------------------------- *)
\* the handler of c ends on a read that returns 0 or fails, or on a write
\* that fails
IOFault(c) == pc[c] \in {"read", "write"} /\ pc'[c] = "closed"

\* what either I/O fault on c leaves as it was: the store and its lock, the
\* listener, and every other connection's handler, buffer and socket
Isolated(c) ==
    /\ data_' = data_ /\ mtx_' = mtx_
    /\ c \notin Holders
    /\ lpc' = lpc /\ server_fd_' = server_fd_ /\ process' = process
    /\ \A d \in Conns \ {c} :
           /\ pc'[d] = pc[d] /\ buffer'[d] = buffer[d]
           /\ line'[d] = line[d] /\ key'[d] = key[d] /\ value'[d] = value[d]
           /\ response'[d] = response[d] /\ net'[d] = net[d]
           /\ out'[d] = out[d]

\* C13: a read returning 0 or an error, or a failed write, on a connection
\* closes that connection's handler and nothing else: the store and its
\* lock are untouched, every other handler is where it was and can go on,
\* and the listener stays in its accept loop.
C13_FaultIsolation ==
    [][\A c \in Conns :
          /\ IOFault(c) => Isolated(c)
          /\ pc'[c] = "closed" /\ pc[c] # "closed" => IOFault(c)
          /\ lpc = "accept" => lpc' = "accept"]_vars

\* one handler ended on a failed write while another, accepted after it, is
\* inside a store call and the listener is accepting
C13_Witness ==
    \E c, d \in Conns :
        /\ c < d
        /\ pc[c] = "closed" /\ Len(lines[c]) > Len(out[c])
        /\ pc[d] \in {"set_assign", "get_find", "rem_erase"}
        /\ lpc = "accept"

(* --------------------------------- C14 --------------------------------- *)
\* the listener's steps: a successful accept starts the handler of one more
\* connection and changes no other; a failed one starts none; both leave
\* the listener accepting, as does every other step; and while connections
\* are left to accept, accepting one waits for no handler
AcceptLoop ==
    /\ \A c \in Conns :
           pc[c] = "none" /\ pc'[c] # "none" =>
               /\ pc'[c] = "read"
               /\ \A d \in Conns \ {c} : pc'[d] = pc[d]
               /\ lpc = "accept" /\ lpc' = "accept" /\ cerr' = cerr
    /\ cerr' # cerr => cerr' = cerr + 1 /\ pc' = pc /\ lpc' = "accept"
    /\ lpc = "accept" => lpc' = "accept"
    /\ lpc = "accept" /\ (\E c \in Conns : pc[c] = "none")
           => ENABLED (\E c \in Conns : Accept(c))

\* C14: every successful accept starts a handler for the new connection and
\* the listener accepts again without waiting for any handler; every failed
\* accept starts none and the listener accepts again; the listener never
\* leaves the accept loop.
C14_AcceptLoop == [][AcceptLoop]_vars

\* MaxAcceptFails accepts have failed, the first handler is inside a store
\* call, the second connection has been accepted meanwhile
C14_Witness ==
    /\ cerr = MaxAcceptFails
    /\ lpc = "accept"
    /\ pc[1] \in {"set_assign", "get_find"}
    /\ pc[2] = "read"

(* --------------------------------- C15 --------------------------------- *)
\* construction has failed: no connection is or will be accepted and the
\* listening socket, if one was made, is closed
StartupFaultContained ==
    lpc = "terminated" =>
        /\ \A c \in Conns : pc[c] = "none"
        /\ server_fd_ \in {"none", "closed"}
        /\ ~ENABLED (\E c \in Conns : Accept(c))

\* C15: when socket, setsockopt, bind or listen fails, construction ends with
\* an error, the accept loop is never entered, the listening socket if made
\* is closed, and main turns the error into an exit with status 1.
C15_StartupFault ==
    /\ StartupFaultContained
    /\ lpc = "terminated" => process = "exit_1"

(* --------------------------------- C16 --------------------------------- *)
\* the handler of c leaves its write without having written the response
WriteFailed(c) == pc[c] = "write" /\ pc'[c] # "write" /\ out'[c] = out[c]

\* C16: a failed write takes the handler straight to closed, and a closed
\* handler stays closed: whatever lines its buffer still holds are never
\* extracted, so they reach neither the store nor the socket.
C16_WriteFailStops ==
    [][\A c \in Conns :
          /\ WriteFailed(c) =>
                /\ pc'[c] = "closed"
                /\ buffer'[c] = buffer[c] /\ lines'[c] = lines[c]
                /\ data_' = data_ /\ mtx_' = mtx_
          /\ pc[c] = "closed" =>
                /\ pc'[c] = "closed"
                /\ buffer'[c] = buffer[c] /\ lines'[c] = lines[c]
                /\ out'[c] = out[c]
                /\ data_' = data_ /\ mtx_' = mtx_]_vars

\* the write of the response to SET a 1 failed while SET b 1, read with it,
\* was still in the buffer: b is not in the store
C16_Witness ==
    /\ pc[1] = "closed"
    /\ lines[1] = <<Join3(CMD_SET, KeyA, Val1)>>
    /\ out[1] = << >>
    /\ buffer[1] = Msg(Join3(CMD_SET, KeyB, Val1))
    /\ data_ = {<<KeyA, Val1>>}

(* --------------------------------- C17 --------------------------------- *)
\* the handler is in, or about to enter, read() or write(), or between them
\* in the line loop, or not running
AtIO(t) == pc[t] \in {"none", "read", "extract", "write", "closed"}
InCriticalSection(t) ==
    pc[t] \in {"set_assign", "set_unlock", "get_find", "get_unlock",
               "rem_erase", "rem_unlock"}

\* C17: no handler holds the mutex, shared or exclusive, while it reads from
\* or writes to its socket; the holders are inside the map access of set,
\* get or remove.
C17_NoLockAcrossIO ==
    \A t \in Conns :
        /\ AtIO(t) => t \notin mtx_.excl /\ t \notin mtx_.shared
        /\ t \in Holders => InCriticalSection(t)

\* a handler is about to write the response of its set while another
\* handler holds the mutex
C17_Witness ==
    \E t, u \in Conns :
        /\ t # u
        /\ pc[t] = "write" /\ response[t] = RESP_OK
        /\ u \in Holders

(* --------------------------------- C18 ---------------------------------
   The Store cannot deadlock and, as the claim has it, every set, get and
   remove call that starts returns in the end.  The first half holds: a
   thread in the Store waits for mtx_ only, and never while it holds it, so
   whenever a thread waits some thread can step.  The second half does not
   follow from fair scheduling: a thread waiting for mtx_ can run only when
   the mutex is free, and other threads may take it again and again.      *)
\* thread t is in a Store call and has not acquired mtx_ yet
WaitsForLock(t) == pc[t] \in {"set_lock", "get_lock", "rem_lock"}

\* thread t is inside a Store call
InCall(t) == WaitsForLock(t) \/ InCriticalSection(t)

\* the call of thread t has returned, the lock released
Returned(t) == pc[t] = "write" /\ t \notin Holders

\* some thread of a Store call can step whenever one waits for the lock
NoDeadlock ==
    (\E t \in Conns : WaitsForLock(t)) => \E u \in Conns : ENABLED StoreCall(u)

\* C18 as stated: no reachable state has every thread that wants the lock
\* blocked, and every call that starts returns and releases the lock
C18_EveryCallReturns ==
    /\ []NoDeadlock
    /\ \A t \in Conns : InCall(t) ~> Returned(t)

\* C18, amended: no reachable state has every thread that wants the lock
\* blocked, and every call that starts returns and releases the lock unless
\* the other threads keep taking the lock for ever: while it is in the call
\* it returns or, once more, another thread is in a critical section
C18_NoDeadlock ==
    /\ []NoDeadlock
    /\ \A t \in Conns :
          InCall(t) ~>
              (Returned(t) \/ \E u \in Conns \ {t} : InCriticalSection(u))

\* a writer waits for the lock while a reader holds it
C18_Witness ==
    \E t, u \in Conns :
        /\ pc[t] \in {"set_lock", "rem_lock"}
        /\ pc[u] = "get_find"
        /\ u \in mtx_.shared

(* --------------------------------- C19 ---------------------------------
   No received byte is lost before line extraction.  The handler appends
   the chunk with buffer += chunk, chunk being a char array: the append
   stops at the first zero byte of the chunk.                             *)
\* the bytes the read of this step has returned on connection c
Received(c) == SubSeq(rx'[c], Len(rx[c]) + 1, Len(rx'[c]))

\* this step is a read on connection c that returns n >= 1 bytes
ReadStep(c) == pc[c] = "read" /\ pc'[c] = "extract"

\* C19: after every read that returns n >= 1 bytes the buffer is the
\* previous leftover followed by exactly those n bytes, whatever their value.
C19_NoByteLost ==
    [][\A c \in Conns : ReadStep(c) => buffer'[c] = buffer[c] \o Received(c)]_vars

\* the same for the reads that return no zero byte
C19_TextChunks ==
    [][\A c \in Conns :
          ReadStep(c) /\ Find(Received(c), NUL) = 0
              => buffer'[c] = buffer[c] \o Received(c)]_vars

(* --------------------------------- C20 ---------------------------------
   An unterminated trailing command is never executed.  The handler parses
   what a '\n' ends and nothing else, and after close(client_socket) it
   returns: the leftover of a closed connection stays where it is.        *)
\* connection c is closed with unterminated bytes left in its buffer
ClosedWithLeftover(c) ==
    pc[c] = "closed" /\ buffer[c] # << >> /\ Find(buffer[c], LF) = 0

\* every line connection c has parsed was ended by a '\n' it received, and
\* every response written answers a parsed line
OnlyTerminatedLines(c) ==
    /\ Len(lines[c]) <= Cardinality(LFs(rx[c]))
    /\ Len(calls[c]) = Len(lines[c])
    /\ Len(out[c]) <= Len(lines[c])

\* a closed connection parses, dispatches and writes nothing more, and its
\* leftover is not touched
ClosedIsFinal(c) ==
    pc[c] = "closed" =>
        /\ pc'[c] = "closed"
        /\ buffer'[c] = buffer[c]
        /\ lines'[c] = lines[c]
        /\ calls'[c] = calls[c]
        /\ out'[c] = out[c]

\* C20: the bytes a connection holds without a '\n' when it closes are never
\* parsed or dispatched: the store is not changed and nothing is written on
\* their account.
C20_TrailingNotExecuted ==
    /\ [](\A c \in Conns : OnlyTerminatedLines(c))
    /\ [][\A c \in Conns : ClosedIsFinal(c)]_vars

\* the connection is closed with unterminated bytes in its buffer, nothing
\* dispatched, nothing written and the store empty
C20_Witness ==
    /\ ClosedWithLeftover(1)
    /\ lines[1] = << >>
    /\ out[1] = << >>
    /\ data_ = EmptyMap

(* --------------------------------- C21 ---------------------------------
   A GET answer tells presence from absence.  No SET stores an empty value,
   so get returns "" for an absent key only; but the handler answers a
   present key with its value, and a value may be the text NOT_FOUND.     *)
\* no key is present with an empty value
NoEmptyValue == \A e \in data_ : e[2] # << >>

\* this step is the return of a get on connection c: the handler holds the
\* shared lock since the lookup, so data_ is as the lookup saw it
GetAnswerStep(c) == pc[c] = "get_unlock" /\ pc'[c] = "write"

\* C21 as stated: no key is ever present with an empty value, and a GET of k
\* is answered NOT_FOUND if and only if k is absent at the lookup.
C21_GetTellsPresence ==
    /\ []NoEmptyValue
    /\ [][\A c \in Conns :
             GetAnswerStep(c) =>
                 (response'[c] = RESP_NOT_FOUND <=> ~Present(data_, key[c]))]_vars

\* C21, amended: no key is ever present with an empty value; a GET of an
\* absent k is answered NOT_FOUND and a GET of a present k with the value
\* stored, so that the answer is NOT_FOUND if and only if k is absent or the
\* value stored under k is the text NOT_FOUND.
C21_GetAnswer ==
    /\ []NoEmptyValue
    /\ [][\A c \in Conns :
             GetAnswerStep(c) =>
                 /\ ~Present(data_, key[c]) => response'[c] = RESP_NOT_FOUND
                 /\ Present(data_, key[c])
                        => response'[c] = MapFind(data_, key[c]) \o <<LF>>
                 /\ response'[c] = RESP_NOT_FOUND
                        <=> \/ ~Present(data_, key[c])
                            \/ MapFind(data_, key[c]) = NOT_FOUND_TEXT]_vars

\* the key is present, its value the text NOT_FOUND, and the GET of it has
\* been answered NOT_FOUND
C21_Witness ==
    /\ out[1] = <<RESP_OK, RESP_NOT_FOUND>>
    /\ lines[1] = <<Join3(CMD_SET, KeyA, NOT_FOUND_TEXT), Join2(CMD_GET, KeyA)>>
    /\ data_ = {<<KeyA, NOT_FOUND_TEXT>>}

====
